---- MODULE Spec2Model ----
(***************************************************************************)
(* Model of src/src/execute.ts: the config normalizer (isExecuteConfig,    *)
(* asExecuteConfig), executeOne and the serial batch orchestrator execute. *)
(* One behaviour of Spec is one top-level call of execute() or             *)
(* executeOne(); the external primitive call() and the coercion            *)
(* asInputFile() are asynchronous and complete in separate steps.          *)
(* SpecHome is the file registry of src/src/imageHome.ts: one ImageHomeImpl *)
(* instance used by concurrent callers.                                    *)
(***************************************************************************)
EXTENDS Integers, Sequences, FiniteSets, TLC

(* ------------------------------ bounds --------------------------------- *)
\* longest command list given by the caller
MaxSteps == 2

ExitCodes == {0, 1, 2}
\* the names of the files the caller supplies, in the order given
CallerNames == {<<>>, <<"a">>, <<"b", "a">>}
\* the names of the files one primitive invocation returns, in the order given
OutputNames == {<<>>, <<"a">>, <<"a", "b">>, <<"a", "a">>}

SeqsUpTo(S, n) == UNION {[1..k -> S] : k \in 0..n}

(* --------------------------- JavaScript values -------------------------- *)
\* A string is kept as its lines, each line as its tokens: '' has no line,
\* a blank line has no token.
Undefined == [t |-> "undefined"]
Str(lines) == [t |-> "str", lines |-> lines]
\* An array and the kind of its elements: "tok" (a Command), "cmd" (a
\* Command[]), "file" (MagickInputFile[]), "none" (the empty array).
Arr(ek, items) == [t |-> "arr", ek |-> ek, items |-> items]
\* An object carrying a commands key, with or without an inputFiles key.
Obj(commands, hasInputFiles, inputFiles) ==
    [t |-> "obj", commands |-> commands, hasInputFiles |-> hasInputFiles,
     inputFiles |-> inputFiles]

\* JavaScript truthiness (!!v, !v): only undefined and '' are falsy here.
Truthy(v) ==
    CASE v.t = "undefined" -> FALSE
      [] v.t = "str" -> v.lines # <<>>
      [] OTHER -> TRUE

\* arg.commands: a string or an array has no such property.
PropCommands(v) == IF v.t = "obj" THEN v.commands ELSE Undefined

\* config.inputFiles || []
InputFilesOrEmpty(v) ==
    IF v.t = "obj" /\ v.hasInputFiles THEN v.inputFiles ELSE <<>>

(* -------------------------------- files --------------------------------- *)
\* step 0 marks a file supplied by the caller, step k > 0 the k-th step's output
InputFile(n, i) == [name |-> n, step |-> 0, idx |-> i, kind |-> "input"]
OutputFile(n, k, i) == [name |-> n, step |-> k, idx |-> i, kind |-> "output"]

\* the external coercion: same name and content, input-file form
asInputFile(f) == [f EXCEPT !.kind = "input"]

\* Array.isArray(x) && isInputFile(x[0])
isInputFile(x) == x.t = "arr" /\ x.ek = "file" /\ Len(x.items) > 0

\* a name-keyed object: its keys in insertion order and the value of each
EmptyMap == [order |-> <<>>, at |-> <<>>]
HasKey(m, n) == \E i \in 1..Len(m.order) : m.order[i] = n
KeyIndex(m, n) == CHOOSE i \in 1..Len(m.order) : m.order[i] = n
\* a store that keeps the first file written under a name
PutKeepFirst(m, f) ==
    IF HasKey(m, f.name) THEN m
    ELSE [order |-> Append(m.order, f.name), at |-> Append(m.at, f)]
\* m[f.name] = f
Put(m, f) ==
    IF HasKey(m, f.name)
    THEN [m EXCEPT !.at[KeyIndex(m, f.name)] = f]
    ELSE [order |-> Append(m.order, f.name), at |-> Append(m.at, f)]
RECURSIVE PutAll(_, _)
PutAll(m, fs) == IF fs = <<>> THEN m ELSE PutAll(Put(m, Head(fs)), Tail(fs))
\* values(m)
values(m) == m.at

(* ------------------------------ normalizers ----------------------------- *)
isExecuteConfig(a) == Truthy(PropCommands(a))

\* a normalizer that omits the check of lines 98-100
asExecuteConfigUnchecked(a, command) ==
    IF isExecuteConfig(a)
    THEN [thrown |-> FALSE, error |-> "", config |-> a]
    ELSE IF isInputFile(a)
    THEN [thrown |-> FALSE, error |-> "", config |-> Obj(command, TRUE, a.items)]
    ELSE [thrown |-> FALSE, error |-> "", config |-> Obj(a, TRUE, <<>>)]

asExecuteConfig(a, command) ==
    IF isExecuteConfig(a)
    THEN [thrown |-> FALSE, error |-> "", config |-> a]
    ELSE IF isInputFile(a)
    THEN IF ~Truthy(command)
         THEN [thrown |-> TRUE, error |-> "No command given", config |-> Undefined]
         ELSE [thrown |-> FALSE, error |-> "",
               config |-> Obj(command, TRUE, a.items)]
    ELSE [thrown |-> FALSE, error |-> "", config |-> Obj(a, TRUE, <<>>)]

\* the command normalizer: one Command per non-blank line of a string, a
\* token list wrapped, a list of token lists passed through
asCommand(c) ==
    CASE c.t = "str" -> SelectSeq(c.lines, LAMBDA l : l # <<>>)
      [] c.t = "arr" /\ c.ek = "tok" -> <<c.items>>
      [] c.t = "arr" /\ c.ek = "cmd" -> c.items
      [] OTHER -> <<>>

\* c + '' : a number token "#1" becomes the string "1"
ToStr(tok) == IF tok = "#1" THEN "1" ELSE tok
Stringify(command) == [i \in DOMAIN command |-> ToStr(command[i])]

(* ------------------------------ executeOne ------------------------------ *)
NoError == [kind |-> "undefined", code |-> 0, stderr |-> <<>>]
ExitError(code, stderr) == [kind |-> "exit", code |-> code, stderr |-> stderr]
ThrownError(code, stderr) == [kind |-> "thrown", code |-> code, stderr |-> stderr]

\* lines 61-64 and the command.map of line 70: the part before the call
executeOneBegin(a, c2) ==
    LET r == asExecuteConfig(a, c2)
        none == [thrown |-> TRUE, error |-> "", inputFiles |-> <<>>, command |-> <<>>]
    IN  IF r.thrown THEN [none EXCEPT !.error = r.error]
        ELSE LET cmds == asCommand(r.config.commands)
             IN  IF cmds = <<>> THEN [none EXCEPT !.error = "TypeError"]
                 ELSE [thrown |-> FALSE, error |-> "",
                       inputFiles |-> InputFilesOrEmpty(r.config),
                       command |-> cmds[1]]

\* a default result that reports success
DefaultResultExitZero(inputFiles, command) ==
    [stderr |-> <<>>, stdout |-> <<>>, outputFiles |-> <<>>, exitCode |-> 0,
     command |-> Stringify(command), inputFiles |-> inputFiles]

DefaultResult(inputFiles, command) ==
    [stderr |-> <<>>, stdout |-> <<>>, outputFiles |-> <<>>, exitCode |-> 1,
     command |-> Stringify(command), inputFiles |-> inputFiles]

\* what the external primitive resolves to when it behaves as o
call(inputFiles, command, o) ==
    [stderr |-> o.stderr, stdout |-> o.stdout, outputFiles |-> o.outputFiles,
     exitCode |-> o.exitCode, command |-> command, inputFiles |-> inputFiles]

\* an executeOne that answers a non-zero exit code with the default result
executeOneResultDropsFailed(inputFiles, command, o) ==
    LET def == DefaultResult(inputFiles, command)
    IN  IF o.thrown
        THEN [errors |-> <<ThrownError(def.exitCode, def.stderr)>>] @@ def
        ELSE LET result == call(inputFiles, Stringify(command), o)
             IN  IF result.exitCode # 0
                 THEN [errors |-> <<ExitError(result.exitCode, result.stderr)>>] @@ def
                 ELSE [errors |-> <<NoError>>] @@ result

\* lines 65-82: the result of executeOne when the primitive behaves as o
executeOneResult(inputFiles, command, o) ==
    LET def == DefaultResult(inputFiles, command)
    IN  IF o.thrown
        THEN [errors |-> <<ThrownError(def.exitCode, def.stderr)>>] @@ def
        ELSE LET result == call(inputFiles, Stringify(command), o)
             IN  IF result.exitCode # 0
                 THEN [errors |-> <<ExitError(result.exitCode, result.stderr)>>] @@ result
                 ELSE [errors |-> <<NoError>>] @@ result

(* ------------------------------- inputs --------------------------------- *)
Lines == {<<>>, <<"convert", "1">>}
CommandSet == {<<"convert", "#1">>}
ExecuteCommands ==
    {Str(l) : l \in SeqsUpTo(Lines, MaxSteps)}
    \cup {Arr("tok", c) : c \in CommandSet}
    \cup {Arr("cmd", l) : l \in SeqsUpTo(CommandSet, MaxSteps) \ {<<>>}}
    \cup {Arr("none", <<>>)}
CallerFiles ==
    {[i \in 1..Len(ns) |-> InputFile(ns[i], i)] : ns \in CallerNames}
\* the three call shapes: (config), (command), (files, command?)
CallArgs ==
    {<<Obj(c, FALSE, <<>>), Undefined>> : c \in ExecuteCommands}
    \cup {<<Obj(c, TRUE, fs), Undefined>> : c \in ExecuteCommands, fs \in CallerFiles}
    \cup {<<c, Undefined>> : c \in ExecuteCommands}
    \cup {<<IF fs = <<>> THEN Arr("none", <<>>) ELSE Arr("file", fs), c>> :
            fs \in CallerFiles, c \in ExecuteCommands \cup {Undefined}}

\* the behaviours of the external primitive at step k: it throws, or returns
\* an exit code, output files, and one line naming the step on each stream
OutputFilesOf(k) ==
    {[i \in 1..Len(ns) |-> OutputFile(ns[i], k, i)] : ns \in OutputNames}
Outcomes(k) ==
    {[thrown |-> TRUE, exitCode |-> 0, stdout |-> <<>>, stderr |-> <<>>,
      outputFiles |-> <<>>]}
    \cup {[thrown |-> FALSE, exitCode |-> e, stdout |-> <<k>>, stderr |-> <<k>>,
           outputFiles |-> fs] : e \in ExitCodes, fs \in OutputFilesOf(k)}

(* -------------------------------- state --------------------------------- *)
VARIABLES
    op,             \* "execute" or "executeOne": the entry point called
    arg, cmdArg,    \* its two arguments
    pc,             \* "init", "running", "calling", "returned", "thrown"
    config,         \* execute: config after line 170
    commands,       \* execute: line 198; executeOne: <<command>> of line 64
    allInputFiles, allOutputFiles,
    allErrors, allStdout, allStderr, results,
    next,           \* number of commands pMap has handed to mapper
    stepState,      \* per step: "idle", "calling", "absorbing", "done"
    absorbing,      \* per step: the output files given to the inner pMap
    pending,        \* per step: indices of output files still being coerced
    calls,          \* the invocations of the primitive, in the order started
    ret,            \* the value the entry point resolved to
    err,            \* the error the entry point threw
    replies,        \* what the primitive did, in the order it completed
    images,         \* ImageHomeImpl.images: name -> future, in key order
    futures,        \* every future register() created, by identity
    builtInImagesAdded,
    adders,         \* per addBuiltInImages() call: its position
    awaited,        \* per addBuiltInImages() call: the futures its pMap awaits
    bulkCount,      \* how often the built-in image set was registered
    getAllPc,       \* getAll(): "idle", "waiting", "returned"
    snapshot,       \* getAll(): the array values(this.images) built at the call
    imagesAtCall,   \* getAll(): the registry as it was at the call
    getAllRet,      \* getAll(): the files it resolved to
    lastOp          \* the last synchronous registry operation and its result

vars == <<op, arg, cmdArg, pc, config, commands, allInputFiles, allOutputFiles,
          allErrors, allStdout, allStderr, results, next, stepState, absorbing,
          pending, calls, ret, err, replies, images, futures,
          builtInImagesAdded, adders, awaited, bulkCount, getAllPc, snapshot,
          imagesAtCall, getAllRet, lastOp>>

inputs == <<op, arg, cmdArg>>
\* the registry, which execute and executeOne never touch
home == <<images, futures, builtInImagesAdded, adders, awaited, bulkCount,
          getAllPc, snapshot, imagesAtCall, getAllRet, lastOp>>
\* execute and executeOne, which the registry never touches
exec == <<op, arg, cmdArg, pc, config, commands, allInputFiles, allOutputFiles,
          allErrors, allStdout, allStderr, results, next, stepState, absorbing,
          pending, calls, ret, err, replies>>
pool == <<allInputFiles, allOutputFiles>>
logs == <<allErrors, allStdout, allStderr, results, replies>>
sched == <<next, stepState, absorbing, pending>>

\* a pMap that lets two mappers run at once
ConcurrencyTwo == 1 + 1
\* pMap(commands, mapper, { concurrency: 1 })
Concurrency == 1

\* the callers of addBuiltInImages()
AddCallers == {1, 2}

\* a registry as createImageHome() returns it, with no call made yet
HomeInit ==
    /\ images = EmptyMap
    /\ futures = <<>>
    /\ builtInImagesAdded = FALSE
    /\ adders = [c \in AddCallers |-> "idle"]
    /\ awaited = [c \in AddCallers |-> {}]
    /\ bulkCount = 0
    /\ getAllPc = "idle"
    /\ snapshot = <<>>
    /\ imagesAtCall = EmptyMap
    /\ getAllRet = <<>>
    /\ lastOp = [op |-> "none"]

\* the locals of execute and executeOne before their first statement
ExecInit ==
    /\ config = Undefined
    /\ commands = <<>>
    /\ allInputFiles = EmptyMap
    /\ allOutputFiles = EmptyMap
    /\ allErrors = <<>>
    /\ allStdout = <<>>
    /\ allStderr = <<>>
    /\ results = <<>>
    /\ next = 0
    /\ stepState = <<>>
    /\ absorbing = <<>>
    /\ pending = <<>>
    /\ calls = <<>>
    /\ ret = Undefined
    /\ err = ""
    /\ replies = <<>>

Init ==
    /\ op \in {"execute", "executeOne"}
    /\ \E a \in CallArgs : arg = a[1] /\ cmdArg = a[2]
    /\ pc = "init"
    /\ ExecInit
    /\ HomeInit

(* ------------------------------- execute -------------------------------- *)
\* lines 169-180 and 198: normalization, up to the outer pMap
ExecuteStart ==
    /\ pc = "init" /\ op = "execute"
    /\ LET r == asExecuteConfig(arg, cmdArg)
       IN  IF r.thrown
           THEN /\ pc' = "thrown"
                /\ err' = r.error
                /\ UNCHANGED <<config, commands, allInputFiles, sched>>
           ELSE LET files == InputFilesOrEmpty(r.config)
                    cmds == asCommand(r.config.commands)
                IN  /\ pc' = "running"
                    /\ config' = Obj(r.config.commands, TRUE, files)
                    /\ allInputFiles' = PutAll(EmptyMap, files)
                    /\ commands' = cmds
                    /\ next' = 0
                    /\ stepState' = [k \in 1..Len(cmds) |-> "idle"]
                    /\ absorbing' = [k \in 1..Len(cmds) |-> <<>>]
                    /\ pending' = [k \in 1..Len(cmds) |-> {}]
                    /\ err' = err
    /\ UNCHANGED <<inputs, home, allOutputFiles, logs, calls, ret>>

InFlight == {k \in DOMAIN stepState : stepState[k] \in {"calling", "absorbing"}}

\* a pMap that starts no further mapper once a result has failed
HasCapacityUnlessFailed ==
    /\ Cardinality(InFlight) < Concurrency
    /\ \A i \in DOMAIN results : results[i].exitCode = 0
\* pMap starts a mapper only while fewer than `concurrency` of them are pending
HasCapacity == Cardinality(InFlight) < Concurrency

\* a mapper that passes the caller's files instead of the pool
ThisConfigCallerOnly(c) == Obj(Arr("cmd", <<c>>), TRUE, config.inputFiles)
\* lines 182-185: the config mapper builds for the command c
ThisConfig(c) == Obj(Arr("cmd", <<c>>), TRUE, values(allInputFiles))

\* a mapper that absorbs the output files of successful steps only
OutputsToAbsorbIfOk(result) ==
    IF result.exitCode = 0 THEN result.outputFiles ELSE <<>>
\* line 192: the files the inner pMap is given
OutputsToAbsorb(result) == result.outputFiles

\* lines 181-186 and 60-74: pMap hands the next command to mapper, which
\* calls executeOne, which invokes the primitive
StartStep ==
    /\ pc = "running"
    /\ next < Len(commands)
    /\ HasCapacity
    /\ LET k == next + 1
           b == executeOneBegin(ThisConfig(commands[k]), Undefined)
       IN  IF b.thrown
           THEN /\ pc' = "thrown"
                /\ err' = b.error
                /\ UNCHANGED <<sched, calls>>
           ELSE /\ next' = k
                /\ stepState' = [stepState EXCEPT ![k] = "calling"]
                /\ calls' = Append(calls, [step |-> k, inputFiles |-> b.inputFiles,
                                           command |-> Stringify(b.command)])
                /\ UNCHANGED <<pc, err, absorbing, pending>>
    /\ UNCHANGED <<inputs, home, config, commands, pool, logs, ret>>

\* lines 74-82 and 186-193: the primitive completes, executeOne resolves,
\* mapper records the result and starts absorbing the output files
StepCompletes(k, o) ==
    /\ pc = "running"
    /\ stepState[k] = "calling"
    /\ LET result == executeOneResult(calls[k].inputFiles, commands[k], o)
       IN  /\ results' = Append(results, result)
           /\ replies' = Append(replies, o)
           /\ allErrors' = allErrors \o result.errors
           /\ allStdout' = allStdout \o result.stdout
           /\ allStderr' = allStderr \o result.stderr
           /\ allOutputFiles' = PutAll(allOutputFiles, OutputsToAbsorb(result))
           /\ absorbing' = [absorbing EXCEPT ![k] = OutputsToAbsorb(result)]
           /\ pending' = [pending EXCEPT ![k] = DOMAIN OutputsToAbsorb(result)]
           /\ stepState' = [stepState EXCEPT ![k] =
                               IF OutputsToAbsorb(result) = <<>> THEN "done"
                               ELSE "absorbing"]
    /\ UNCHANGED <<inputs, home, pc, config, commands, allInputFiles, next, calls, ret, err>>

\* lines 194-195: one coercion completes and its file enters the input pool
Absorb(k, i) ==
    /\ pc = "running"
    /\ stepState[k] = "absorbing"
    /\ i \in pending[k]
    /\ allInputFiles' = Put(allInputFiles, asInputFile(absorbing[k][i]))
    /\ pending' = [pending EXCEPT ![k] = @ \ {i}]
    /\ stepState' = [stepState EXCEPT ![k] =
                        IF pending[k] = {i} THEN "done" ELSE "absorbing"]
    /\ UNCHANGED <<inputs, home, pc, config, commands, allOutputFiles, logs, next,
                   absorbing, calls, ret, err>>

\* a find that keeps the last match instead of the first
RECURSIVE FindLastWithError(_)
FindLastWithError(rs) ==
    IF rs = <<>> THEN <<>>
    ELSE IF FindLastWithError(Tail(rs)) # <<>> THEN FindLastWithError(Tail(rs))
    ELSE IF Head(rs).exitCode # 0 THEN <<Head(rs)>>
    ELSE <<>>

\* r => r.exitCode !== 0, found front to back
RECURSIVE FindWithError(_)
FindWithError(rs) ==
    IF rs = <<>> THEN <<>>
    ELSE IF Head(rs).exitCode # 0 THEN <<Head(rs)>>
    ELSE FindWithError(Tail(rs))

\* lines 199-211: the outer pMap has resolved
ExecuteReturn ==
    /\ pc = "running"
    /\ next = Len(commands)
    /\ \A k \in DOMAIN stepState : stepState[k] = "done"
    /\ LET resultWithError == FindWithError(results)
       IN  ret' = [outputFiles |-> values(allOutputFiles),
                   errors |-> allErrors,
                   results |-> results,
                   stdout |-> allStdout,
                   stderr |-> allStderr,
                   exitCode |-> IF resultWithError # <<>>
                                THEN resultWithError[1].exitCode ELSE 0,
                   command |-> <<>>,
                   commands |-> commands,
                   inputFiles |-> config.inputFiles]
    /\ pc' = "returned"
    /\ UNCHANGED <<inputs, home, config, commands, pool, logs, sched, calls, err>>

(* ---------------------------- executeOne -------------------------------- *)
\* lines 60-74 as the entry point
ExecuteOneStart ==
    /\ pc = "init" /\ op = "executeOne"
    /\ LET b == executeOneBegin(arg, cmdArg)
       IN  IF b.thrown
           THEN /\ pc' = "thrown"
                /\ err' = b.error
                /\ UNCHANGED <<commands, calls>>
           ELSE /\ pc' = "calling"
                /\ commands' = <<b.command>>
                /\ calls' = <<[step |-> 1, inputFiles |-> b.inputFiles,
                               command |-> Stringify(b.command)]>>
                /\ err' = err
    /\ UNCHANGED <<inputs, home, config, pool, logs, sched, ret>>

\* lines 74-82 as the entry point
ExecuteOneCompletes(o) ==
    /\ pc = "calling"
    /\ ret' = executeOneResult(calls[1].inputFiles, commands[1], o)
    /\ replies' = Append(replies, o)
    /\ pc' = "returned"
    /\ UNCHANGED <<inputs, home, config, commands, pool, allErrors, allStdout,
                   allStderr, results, sched, calls, err>>

Next ==
    \/ ExecuteStart
    \/ StartStep
    \/ \E k \in DOMAIN stepState : \E o \in Outcomes(k) : StepCompletes(k, o)
    \/ \E k \in DOMAIN stepState : \E i \in DOMAIN absorbing[k] : Absorb(k, i)
    \/ ExecuteReturn
    \/ ExecuteOneStart
    \/ \E o \in Outcomes(1) : ExecuteOneCompletes(o)

Spec == Init /\ [][Next]_vars

\* Spec with the scheduling a batch runs under: the event loop runs every
\* continuation that is ready, every invocation of the primitive completes
\* and every coercion completes
FairSpec ==
    /\ Spec
    /\ WF_vars(ExecuteStart)
    /\ WF_vars(StartStep)
    /\ WF_vars(\E k \in DOMAIN stepState : \E o \in Outcomes(k) : StepCompletes(k, o))
    /\ WF_vars(\E k \in DOMAIN stepState : \E i \in DOMAIN absorbing[k] : Absorb(k, i))
    /\ WF_vars(ExecuteReturn)

(* ------------------------------ imageHome ------------------------------- *)
\* most conversions started on one registry
MaxFutures == 3
\* the names of the files callers register
UserFiles == {"x", "y"}
\* the explicit name arguments callers pass to register
NameArgs == {"x"}
\* the names of the images getBuiltInImages() yields
BuiltInImages == <<"rose">>
\* the name lists callers pass to remove
RemoveArgs == {{"x", "rose"}}

\* the future asInputFile(file) returns, registered under key: not settled,
\* and without a resolved property
asInputFilePromise(file, key) ==
    [file |-> file, key |-> key, settled |-> FALSE, resolved |-> FALSE]

\* this.images[name] of a name without an entry
NoFuture == 0
\* get(name), line 42
get(name) ==
    IF HasKey(images, name) THEN images.at[KeyIndex(images, name)].p ELSE NoFuture

\* isRegistered(name, andReady), line 70, as the JavaScript value returned
isRegistered(name, andReady) ==
    IF get(name) = NoFuture THEN "undefined"
    ELSE IF ~andReady THEN "false"
    ELSE IF futures[get(name)].resolved THEN "true"
    ELSE "undefined"

\* a callback that marks whatever future the slot of the name holds
ResolvedTargetSlot(p) ==
    IF HasKey(images, futures[p].key) THEN get(futures[p].key) ELSE p
\* line 64: the callback marks the future its own call created
ResolvedTarget(p) == p

\* lines 61-62 for each of files in turn, each under its own name:
\* the futures and the registry afterwards
RECURSIVE registerAll(_, _, _)
registerAll(files, fs, imgs) ==
    IF files = <<>> THEN [futures |-> fs, images |-> imgs]
    ELSE registerAll(Tail(files),
                     Append(fs, asInputFilePromise(Head(files), Head(files))),
                     Put(imgs, [name |-> Head(files), p |-> Len(fs) + 1]))

\* a remove that returns the matching futures and deletes nothing
removeKeepsEntries(names) ==
    [images |-> images,
     result |-> [i \in DOMAIN SelectSeq(images.at, LAMBDA e : e.name \in names) |->
                    SelectSeq(images.at, LAMBDA e : e.name \in names)[i].p]]
\* lines 46-53: the registry and the result of remove(names)
remove(names) ==
    LET gone == SelectSeq(images.at, LAMBDA e : e.name \in names)
    IN  [images |-> [order |-> SelectSeq(images.order, LAMBDA n : n \notin names),
                     at |-> SelectSeq(images.at, LAMBDA e : e.name \notin names)],
         result |-> [i \in DOMAIN gone |-> gone[i].p]]

\* a getAll that resolves with the entries tracked when the wait ends
getAllResultLive == [i \in DOMAIN images.at |-> futures[images.at[i].p].file]
\* line 57: Promise.all resolves with the files of the futures it was given
getAllResult == [i \in DOMAIN snapshot |-> futures[snapshot[i]].file]

\* a registry on which no batch runs
InitHome ==
    /\ op = "none"
    /\ arg = Undefined
    /\ cmdArg = Undefined
    /\ pc = "idle"
    /\ ExecInit
    /\ HomeInit

\* lines 60-67: register(file, name)
Register(file, name) ==
    /\ Len(futures) < MaxFutures
    /\ futures' = Append(futures, asInputFilePromise(file, name))
    /\ images' = Put(images, [name |-> name, p |-> Len(futures) + 1])
    /\ lastOp' = [op |-> "register", name |-> name, p |-> Len(futures) + 1]
    /\ UNCHANGED <<exec, builtInImagesAdded, adders, awaited, bulkCount,
                   getAllPc, snapshot, imagesAtCall, getAllRet>>

\* line 60: register(file), the name defaulting to file.name
RegisterDefault(file) == Register(file, file)

\* lines 63-65: the conversion of future p completes and the callback
\* registered on it, the first one, runs
ConversionCompletes(p) ==
    /\ ~futures[p].settled
    /\ futures' = [futures EXCEPT ![p].settled = TRUE,
                                  ![ResolvedTarget(p)].resolved = TRUE]
    /\ lastOp' = [op |-> "other"]
    /\ UNCHANGED <<exec, images, builtInImagesAdded, adders, awaited, bulkCount,
                   getAllPc, snapshot, imagesAtCall, getAllRet>>

\* lines 45-54: remove(names)
Remove(names) ==
    /\ images' = remove(names).images
    /\ lastOp' = [op |-> "remove", names |-> names, result |-> remove(names).result,
                  before |-> images]
    /\ UNCHANGED <<exec, futures, builtInImagesAdded, adders, awaited, bulkCount,
                   getAllPc, snapshot, imagesAtCall, getAllRet>>

\* lines 56-57: getAll() hands the tracked futures to Promise.all
GetAllCall ==
    /\ getAllPc = "idle"
    /\ getAllPc' = "waiting"
    /\ snapshot' = [i \in DOMAIN values(images) |-> values(images)[i].p]
    /\ imagesAtCall' = images
    /\ lastOp' = [op |-> "other"]
    /\ UNCHANGED <<exec, images, futures, builtInImagesAdded, adders, awaited,
                   bulkCount, getAllRet>>

\* line 57: every future given to Promise.all has resolved
GetAllReturn ==
    /\ getAllPc = "waiting"
    /\ \A i \in DOMAIN snapshot : futures[snapshot[i]].settled
    /\ getAllPc' = "returned"
    /\ getAllRet' = getAllResult
    /\ lastOp' = [op |-> "other"]
    /\ UNCHANGED <<exec, images, futures, builtInImagesAdded, adders, awaited,
                   bulkCount, snapshot, imagesAtCall>>

\* lines 73-75: caller c calls addBuiltInImages(), which tests the flag and
\* awaits getBuiltInImages()
AddCall(c) ==
    /\ adders[c] = "idle"
    /\ adders' = [adders EXCEPT ![c] = IF ~builtInImagesAdded THEN "fetching" ELSE "done"]
    /\ lastOp' = [op |-> "other"]
    /\ UNCHANGED <<exec, images, futures, builtInImagesAdded, awaited, bulkCount,
                   getAllPc, snapshot, imagesAtCall, getAllRet>>

\* line 75: the image set arrives and pMap registers every image of it
AddFetched(c) ==
    /\ adders[c] = "fetching"
    /\ Len(futures) + Len(BuiltInImages) <= MaxFutures
    /\ LET r == registerAll(BuiltInImages, futures, images)
       IN  /\ futures' = r.futures
           /\ images' = r.images
           /\ awaited' = [awaited EXCEPT ![c] = (Len(futures) + 1)..Len(r.futures)]
    /\ bulkCount' = bulkCount + 1
    /\ adders' = [adders EXCEPT ![c] = "registering"]
    /\ lastOp' = [op |-> "other"]
    /\ UNCHANGED <<exec, builtInImagesAdded, getAllPc, snapshot, imagesAtCall,
                   getAllRet>>

\* lines 75-76: every registration pMap awaits has resolved; the flag is set
AddDone(c) ==
    /\ adders[c] = "registering"
    /\ \A p \in awaited[c] : futures[p].settled
    /\ builtInImagesAdded' = TRUE
    /\ adders' = [adders EXCEPT ![c] = "done"]
    /\ lastOp' = [op |-> "other"]
    /\ UNCHANGED <<exec, images, futures, awaited, bulkCount, getAllPc, snapshot,
                   imagesAtCall, getAllRet>>

NextHome ==
    \/ \E f \in UserFiles : \E n \in NameArgs : Register(f, n)
    \/ \E f \in UserFiles : RegisterDefault(f)
    \/ \E p \in DOMAIN futures : ConversionCompletes(p)
    \/ \E names \in RemoveArgs : Remove(names)
    \/ GetAllCall
    \/ GetAllReturn
    \/ \E c \in AddCallers : AddCall(c)
    \/ \E c \in AddCallers : AddFetched(c)
    \/ \E c \in AddCallers : AddDone(c)

SpecHome == InitHome /\ [][NextHome]_vars

(* ------------------------------ properties ------------------------------ *)
Range(s) == {s[i] : i \in DOMAIN s}
Max(S) == CHOOSE x \in S : \A y \in S : y <= x
Min(S) == CHOOSE x \in S : \A y \in S : x <= y
InBatch == op = "execute" /\ pc \in {"running", "returned"}
NamesOf(fs) == {fs[i].name : i \in DOMAIN fs}
AllNames == UNION {Range(ns) : ns \in CallerNames \cup OutputNames}
Failed(r) == r.exitCode # 0

\* C1: at most one step is in flight; whenever step k has been started, every
\* earlier step has completed its primitive call and absorbed every one of its
\* output files; the primitive is invoked for the steps in source order.
C1_OneStepInFlight ==
    InBatch =>
        /\ Cardinality(InFlight) <= 1
        /\ \A k \in DOMAIN stepState :
              stepState[k] # "idle" =>
                \A j \in 1..(k - 1) :
                    /\ stepState[j] = "done"
                    /\ pending[j] = {}
                    /\ j <= Len(results)
                    /\ \A f \in Range(results[j].outputFiles) :
                          \E g \in Range(values(allInputFiles)) : g.name = f.name
        /\ \A i \in DOMAIN calls :
              /\ calls[i].step = i
              /\ calls[i].command = Stringify(commands[i])
              /\ stepState[i] # "idle"

\* C1 witness: step 2 is in its primitive call after step 1 absorbed two files
C1_Witness ==
    /\ InBatch
    /\ Len(calls) = 2
    /\ stepState[2] = "calling"
    /\ Len(absorbing[1]) = 2

\* the pool a step must be given, name by name: the files of that name from
\* the latest earlier step that output the name or, when no step did, the
\* last file of that name the caller supplied
Producers(k, n) == {j \in 1..(k - 1) : n \in NamesOf(results[j].outputFiles)}
ExpectedFor(k, n) ==
    IF Producers(k, n) # {}
    THEN {asInputFile(f) : f \in {g \in Range(results[Max(Producers(k, n))].outputFiles) :
                                    g.name = n}}
    ELSE IF n \in NamesOf(config.inputFiles)
    THEN {config.inputFiles[Max({i \in DOMAIN config.inputFiles :
                                    config.inputFiles[i].name = n})]}
    ELSE {}

\* C2: the input files passed to the primitive at step k are exactly the
\* caller's files overlaid, in step order, with the output files of steps
\* 1..k-1, one file per name.
C2_InputsArePool ==
    InBatch =>
        \A k \in DOMAIN calls :
            /\ k - 1 <= Len(results)
            /\ \A n \in AllNames :
                  LET got == {i \in DOMAIN calls[k].inputFiles :
                                calls[k].inputFiles[i].name = n}
                  IN  IF ExpectedFor(k, n) = {} THEN got = {}
                      ELSE /\ Cardinality(got) = 1
                           /\ \A i \in got : calls[k].inputFiles[i] \in ExpectedFor(k, n)

\* C2 witness: step 2 is given a file step 1 output, replacing the caller's
\* file of the same name
C2_Witness ==
    /\ InBatch
    /\ Len(calls) = 2
    /\ "a" \in NamesOf(config.inputFiles)
    /\ \E f \in Range(calls[2].inputFiles) : f.name = "a" /\ f.step = 1

\* C3: the aggregate exit code is that of the first failing result in
\* execution order, and 0 exactly when no step failed.
C3_FirstFailureWins ==
    (op = "execute" /\ pc = "returned") =>
        LET rs == ret.results
            failing == {i \in DOMAIN rs : rs[i].exitCode # 0}
        IN  /\ \A i \in DOMAIN rs : rs[i].inputFiles = calls[i].inputFiles
            /\ (ret.exitCode = 0) <=> (failing = {})
            /\ failing # {} => ret.exitCode = rs[Min(failing)].exitCode

\* C3 witness: two steps failed with different exit codes
C3_Witness ==
    /\ op = "execute" /\ pc = "returned"
    /\ Len(ret.results) = 2
    /\ ret.results[1].exitCode = 2
    /\ ret.results[2].exitCode = 1


\* C4: executeOne(config) always returns an ExecuteResultOne and never raises,
\* whatever the primitive does, for every config with a non-empty commands
\* value, also one whose commands normalize to no step.
C4_ExecuteOneNeverRaises ==
    (op = "executeOne" /\ arg.t = "obj" /\ Truthy(arg.commands)) =>
        /\ pc # "thrown"
        /\ pc = "returned" => Len(ret.errors) = 1

\* C5: execute runs every step whatever the earlier steps did: it never
\* stalls or throws once running, and on return there is one result and one
\* primitive invocation per normalized command, in execution order.
C5_EveryStepRuns ==
    op = "execute" =>
        /\ pc = "running" => ENABLED Next
        /\ pc = "thrown" => calls = <<>>
        /\ pc = "returned" =>
              /\ ret.commands = asCommand(config.commands)
              /\ Len(ret.results) = Len(ret.commands)
              /\ Len(calls) = Len(ret.commands)
              /\ \A i \in DOMAIN calls :
                    /\ calls[i].step = i
                    /\ ret.results[i].inputFiles = calls[i].inputFiles
                    /\ ret.results[i].command = calls[i].command

\* C5 witness: a two-step batch returned both results although step 1 failed
C5_Witness ==
    /\ op = "execute" /\ pc = "returned"
    /\ Len(ret.results) = 2 /\ Len(calls) = 2
    /\ ret.results[1].exitCode # 0

\* C6 as claimed: no primitive invocation is started for a step that follows
\* a failed step.
C6_HaltsAfterFailure ==
    InBatch =>
        \A i \in DOMAIN calls :
            \A j \in 1..(i - 1) : j <= Len(results) => ~Failed(results[j])

\* C6 as amended: a failed step halts nothing; while commands remain after a
\* failure the next one can be started as soon as no step is in flight, and
\* the batch returns only after the primitive was invoked for every command.
C6_ContinuesAfterFailure ==
    (InBatch /\ \E j \in DOMAIN results : Failed(results[j])) =>
        /\ (pc = "running" /\ InFlight = {} /\ next < Len(commands)) => ENABLED StartStep
        /\ pc = "returned" => Len(calls) = Len(commands)

\* C6 witness: step 2 is in its primitive call after step 1's primitive threw
C6_Witness ==
    /\ InBatch
    /\ Len(results) = 1
    /\ results[1].errors[1].kind = "thrown"
    /\ Len(calls) = 2 /\ stepState[2] = "calling"

\* C7: the aggregate output files hold one file per name, namely the last
\* file of that name written by the latest step that produced the name, and
\* every name some step produced is present.
C7_LastWriteWins ==
    (op = "execute" /\ pc = "returned") =>
        LET out == ret.outputFiles
        IN  /\ \A i, j \in DOMAIN out : out[i].name = out[j].name => i = j
            /\ \A n \in AllNames :
                  LET P == Producers(Len(results) + 1, n)
                  IN  IF P = {} THEN n \notin NamesOf(out)
                      ELSE LET fs == results[Max(P)].outputFiles
                               last == Max({i \in DOMAIN fs : fs[i].name = n})
                           IN  \E i \in DOMAIN out : out[i] = fs[last]

\* C7 witness: both steps of a batch wrote a file named "a"
C7_Witness ==
    /\ op = "execute" /\ pc = "returned"
    /\ Len(results) = 2
    /\ "a" \in NamesOf(results[1].outputFiles)
    /\ "a" \in NamesOf(results[2].outputFiles)
    /\ \E i \in DOMAIN ret.outputFiles :
          ret.outputFiles[i].name = "a" /\ ret.outputFiles[i].step = 2

\* C8 as claimed: when step 1 of a two-step batch failed, step 2 is given no
\* file that step 1 output.
C8_FailedStepContributesNothing ==
    (InBatch /\ Len(commands) = 2 /\ Len(calls) = 2 /\ Failed(results[1])) =>
        \A f \in Range(calls[2].inputFiles) : f.step # 1

\* C8 as amended: a step whose primitive threw contributes no file to the
\* next step's inputs, while a step that returned a non-zero exit code
\* contributes every output file it returned.
C8_OnlyThrowContributesNothing ==
    InBatch =>
        \A k \in DOMAIN calls :
            k >= 2 =>
                LET r == results[k - 1]
                IN  /\ r.errors[1].kind = "thrown" =>
                          \A f \in Range(calls[k].inputFiles) : f.step # k - 1
                    /\ r.errors[1].kind = "exit" =>
                          \A n \in NamesOf(r.outputFiles) :
                              \E f \in Range(calls[k].inputFiles) :
                                  f.name = n /\ f.step = k - 1

\* C8 witness: step 1 returned exit code 1 with a file "a", and step 2 is
\* given that file
C8_Witness ==
    /\ InBatch
    /\ Len(calls) = 2
    /\ results[1].exitCode = 1
    /\ results[1].errors[1].kind = "exit"
    /\ \E f \in Range(calls[2].inputFiles) : f.name = "a" /\ f.step = 1

\* C9: the normalizer takes its argument for an ExecuteConfig exactly when
\* it is an object carrying a commands key, whatever the key's value, and
\* then returns it with its commands and inputFiles.
C9_KeyPresenceDiscriminates ==
    (op = "execute" /\ pc # "init") =>
        /\ arg.t = "obj" =>
              /\ pc # "thrown"
              /\ config.commands = arg.commands
              /\ config.inputFiles = InputFilesOrEmpty(arg)
        /\ (arg.t # "obj" /\ pc # "thrown") => config.commands \in {arg, cmdArg}

CallerCommand ==
    IF arg.t = "obj" THEN arg.commands
    ELSE IF cmdArg # Undefined THEN cmdArg
    ELSE arg
\* the call carries no input file: (config without files), (command), ([], command)
CallWithoutFiles ==
    \/ arg.t = "obj" /\ InputFilesOrEmpty(arg) = <<>>
    \/ arg.t = "str" /\ cmdArg = Undefined
    \/ arg.t = "arr" /\ arg.ek # "file" /\ cmdArg = Undefined
    \/ arg = Arr("none", <<>>) /\ cmdArg # Undefined

\* C11: execute(cmd), execute({commands: cmd}) and execute([], cmd) normalize
\* to the same {inputFiles: empty, commands: cmd} for every non-empty cmd, run
\* the steps of cmd, and report the first step's stringified command.
C11_CallShapesEquivalent ==
    (op = "execute" /\ pc # "init" /\ CallWithoutFiles /\ Truthy(CallerCommand)) =>
        /\ pc # "thrown"
        /\ config.inputFiles = <<>>
        /\ config.commands = CallerCommand
        /\ commands = asCommand(CallerCommand)
        /\ (pc = "returned" /\ commands # <<>>) =>
              ret.results[1].command = Stringify(asCommand(CallerCommand)[1])

\* the input files the caller gave, whichever call shape carried them
CallerInputFiles ==
    IF arg.t = "obj" THEN InputFilesOrEmpty(arg)
    ELSE IF isInputFile(arg) THEN arg.items
    ELSE <<>>

\* C18: executeOne resolves in one of three ways, each with one error slot:
\* exit code 0 gives the primitive's result and an undefined error; a non-zero
\* exit code gives the primitive's result, exit code and output files kept,
\* and one message; a throw gives exit code 1, empty stdout, stderr and
\* outputFiles, the config's input files, the stringified command and one
\* message.
C18_ThreeOutcomes ==
    (op = "executeOne" /\ pc = "returned") =>
        LET o == replies[1]
            command == Stringify(asCommand(CallerCommand)[1])
        IN  /\ Len(ret.errors) = 1
            /\ ret.inputFiles = CallerInputFiles
            /\ ret.command = command
            /\ \A i \in DOMAIN command : command[i] # "#1"
            /\ (~o.thrown /\ o.exitCode = 0) =>
                  /\ ret.errors = <<NoError>>
                  /\ ret.exitCode = 0
                  /\ ret.stdout = o.stdout /\ ret.stderr = o.stderr
                  /\ ret.outputFiles = o.outputFiles
            /\ (~o.thrown /\ o.exitCode # 0) =>
                  /\ ret.errors = <<ExitError(o.exitCode, o.stderr)>>
                  /\ ret.exitCode = o.exitCode
                  /\ ret.stdout = o.stdout /\ ret.stderr = o.stderr
                  /\ ret.outputFiles = o.outputFiles
            /\ o.thrown =>
                  /\ ret.errors[1].kind = "thrown"
                  /\ ret.errors[1].code = 1
                  /\ ret.exitCode = 1
                  /\ ret.stdout = <<>> /\ ret.stderr = <<>>
                  /\ ret.outputFiles = <<>>

\* C18 witness: executeOne was given a file and a number token, and the
\* primitive returned exit code 2 with two output files
C18_Witness ==
    /\ op = "executeOne" /\ pc = "returned"
    /\ Len(CallerInputFiles) = 2
    /\ "#1" \in Range(asCommand(CallerCommand)[1])
    /\ ret.exitCode = 2
    /\ Len(ret.outputFiles) = 2

RECURSIVE Concat(_)
Concat(ss) == IF ss = <<>> THEN <<>> ELSE Head(ss) \o Concat(Tail(ss))

\* C19: in the result of execute, errors is aligned with results: errors[i]
\* is the one error slot of step i and is undefined exactly when step i's
\* exit code is 0, so the aggregate exit code is non-zero exactly when some
\* slot is not undefined; stdout and stderr are the per-step streams
\* concatenated in execution order.
C19_ErrorsAligned ==
    (op = "execute" /\ pc = "returned") =>
        LET rs == ret.results
        IN  /\ Len(ret.errors) = Len(rs)
            /\ \A i \in DOMAIN rs :
                  /\ Len(rs[i].errors) = 1
                  /\ ret.errors[i] = rs[i].errors[1]
                  /\ (ret.errors[i] = NoError) <=> (rs[i].exitCode = 0)
            /\ (ret.exitCode # 0) <=> (\E i \in DOMAIN ret.errors : ret.errors[i] # NoError)
            /\ ret.stdout = Concat([i \in DOMAIN rs |-> rs[i].stdout])
            /\ ret.stderr = Concat([i \in DOMAIN rs |-> rs[i].stderr])

\* C19 witness: step 1 threw and step 2 succeeded
C19_Witness ==
    /\ op = "execute" /\ pc = "returned"
    /\ Len(ret.errors) = 2
    /\ ret.errors[1].kind = "thrown"
    /\ ret.errors[2] = NoError
    /\ ret.stdout = <<2>>

\* C20: when every invocation of the primitive and every coercion completes,
\* a running batch eventually returns; and while an invocation has not
\* completed, execute has not returned and no later step has been started.
C20_BatchLiveness ==
    /\ (op = "execute" /\ pc = "running") ~> (pc = "returned")
    /\ [](\A k \in DOMAIN stepState :
            stepState[k] = "calling" =>
                pc = "running" /\ next = k /\ Len(calls) = k)

\* C20 witness: a batch returned after two steps that each output two files
C20_Witness ==
    /\ op = "execute" /\ pc = "returned"
    /\ Len(ret.results) = 2
    /\ Len(absorbing[1]) = 2 /\ Len(absorbing[2]) = 2
    /\ \A k \in DOMAIN pending : pending[k] = {}

\* every name a caller can ask the registry about
AllKeys == UserFiles \cup NameArgs \cup Range(BuiltInImages) \cup {"z"}
\* the futures the entries of registry m hold, in key order
FuturesOf(m) == [i \in DOMAIN m.at |-> m.at[i].p]
\* the registrations made under name n so far
RegisteredAs(n) == {p \in DOMAIN futures : futures[p].key = n}

\* C12: the registry holds one entry per name and register is last-write-wins:
\* right after register(file, name) returns, get(name) is the pending future
\* of that call; a tracked name's slot holds the latest registration under it,
\* so a superseded future is not reachable through the registry, yet its
\* conversion can still complete.
C12_RegisterLastWriteWins ==
    /\ \A i, j \in DOMAIN images.order : images.order[i] = images.order[j] => i = j
    /\ \A i \in DOMAIN images.at : images.at[i].name = images.order[i]
    /\ lastOp.op = "register" =>
          get(lastOp.name) = lastOp.p /\ ~futures[lastOp.p].settled
    /\ \A n \in AllKeys : HasKey(images, n) => get(n) = Max(RegisteredAs(n))
    /\ \A p \in DOMAIN futures :
          (p \notin Range(FuturesOf(images)) /\ ~futures[p].settled) =>
              ENABLED ConversionCompletes(p)

\* C12 witness: a name was registered again while its earlier registration
\* was still pending
C12_Witness ==
    /\ lastOp.op = "register"
    /\ \E p \in RegisteredAs(lastOp.name) : p < lastOp.p /\ ~futures[p].settled

\* C13: isRegistered(name) is true exactly when the registry holds an entry
\* for name and the conversion of that entry's own future has completed.
C13_ReadyOnlyWhenOwnConversionDone ==
    \A n \in AllKeys :
        (isRegistered(n, TRUE) = "true") <=>
            (HasKey(images, n) /\ futures[get(n)].settled)

\* C13 witness: the current entry of a name is pending while a superseded
\* registration of the same name has completed
C13_Witness ==
    \E n \in AllKeys :
        /\ HasKey(images, n)
        /\ ~futures[get(n)].settled
        /\ \E p \in RegisteredAs(n) : p < get(n) /\ futures[p].settled

\* C14: isRegistered(name, false) is true whenever the registry holds an entry
\* for name, pending or completed.
C14_EntryExistsIgnoringReadiness ==
    \A n \in AllKeys : HasKey(images, n) => isRegistered(n, FALSE) = "true"

\* C15: however many addBuiltInImages() calls are made, overlapping ones
\* included, the built-in image set is registered in bulk at most once.
C15_BulkRegistrationOnce == bulkCount <= 1

\* C16: getAll() returns the files of exactly the entries tracked when it was
\* called, in the order of the registry keys at that moment, once all of them
\* have resolved; what it waits for is fixed at the call.
C16_GetAllSnapshot ==
    /\ getAllPc # "idle" => snapshot = FuturesOf(imagesAtCall)
    /\ getAllPc = "returned" =>
          /\ Len(getAllRet) = Len(imagesAtCall.order)
          /\ \A i \in DOMAIN imagesAtCall.at :
                /\ futures[imagesAtCall.at[i].p].settled
                /\ getAllRet[i] = futures[imagesAtCall.at[i].p].file

\* C16 witness: getAll() returned two files after the registry changed while
\* it was waiting
C16_Witness ==
    /\ getAllPc = "returned"
    /\ Len(getAllRet) = 2
    /\ getAllRet # getAllResultLive

\* C17: remove(names) returns the futures of exactly the tracked entries whose
\* name is in names, in key order, and deletes exactly those entries: every
\* other entry keeps its future and its place, untracked names are ignored,
\* get(n) misses for every n in names, and a returned future that is still
\* pending can still complete.
C17_RemoveFrame ==
    lastOp.op = "remove" =>
        LET b == lastOp.before
            names == lastOp.names
            hit == {i \in DOMAIN b.order : b.order[i] \in names}
        IN  /\ Len(lastOp.result) = Cardinality(hit)
            /\ Range(lastOp.result) = {b.at[i].p : i \in hit}
            /\ \A i, j \in DOMAIN lastOp.result :
                  i < j => \E k, l \in hit : /\ k < l
                                             /\ b.at[k].p = lastOp.result[i]
                                             /\ b.at[l].p = lastOp.result[j]
            /\ \A n \in names : get(n) = NoFuture /\ isRegistered(n, TRUE) = "undefined"
            /\ \A n \in AllKeys \ names :
                  /\ HasKey(images, n) <=> HasKey(b, n)
                  /\ HasKey(b, n) => get(n) = b.at[KeyIndex(b, n)].p
            /\ images.order = SelectSeq(b.order, LAMBDA n : n \notin names)
            /\ \A i \in DOMAIN lastOp.result :
                  ~futures[lastOp.result[i]].settled =>
                      ENABLED ConversionCompletes(lastOp.result[i])

\* C17 witness: remove deleted a pending entry, left another entry in place
\* and was given a name that was not tracked
C17_Witness ==
    /\ lastOp.op = "remove"
    /\ \E i \in DOMAIN lastOp.result : ~futures[lastOp.result[i]].settled
    /\ images.order # <<>>
    /\ \E n \in lastOp.names : ~HasKey(lastOp.before, n)

====
